---- MODULE Spec2Model ----
(***************************************************************************)
(* Model of app.py: the KMZ unwrapper, the KML coordinate tokenizer, the   *)
(* geometry helpers, the Style/StyleMap resolver, the symbol classifier,   *)
(* the Placemark loop of parse_kml and the upload flow of main.            *)
(*                                                                         *)
(* Representation.                                                         *)
(*   str      a sequence of one-character strings; <<>> is "" and also the *)
(*            text of an element that has none (both are falsy in Python). *)
(*   float    a decimal <<m, e>> standing for m * 10^-e, normalised (no    *)
(*            trailing zero digit, zero is <<0, 0>>); ValueError is <<>>.  *)
(*   element  a record [tag, id, text, kids]; kids in document order.      *)
(*   dict     a function whose DOMAIN is the set of keys.                  *)
(*   row value (Latitude, Longitude): a reduced fraction <<num, den>>.     *)
(***************************************************************************)
EXTENDS Integers, Sequences, FiniteSets, TLC

VARIABLES
    pc,                             \* position in main / parse_kml, or the function under study
    uploaded,                       \* main: the uploaded file, or NoUpload
    target,                         \* read_kml_from_kmz: the selected entry name
    raised,                         \* the exception that escaped the unwrapper, or NoStr
    kml_bytes,                      \* main: the KML document handed to parse_kml
    icon_by_style_id,               \* parse_kml: Style id -> href
    normal_target_by_stylemap_id,   \* parse_kml: StyleMap id -> normal target id
    placemarks,                     \* parse_kml: the Placemark elements, document order
    idx,                            \* parse_kml: index of the next Placemark of the loop
    href,                           \* detect_symbol: the href resolved for the last Placemark
    rows,                           \* parse_kml: the rows appended so far
    ui,                             \* main: what the page shows at the end
    download,                       \* main: whether the download button is offered
    in_tokens,                      \* tokenizer study: the tokens the text was built from
    coord_text,                     \* parse_coordinates_text: its argument
    coords,                         \* parse_coordinates_text: its result
    vertices,                       \* is_triangle: its argument
    tri                             \* is_triangle: its result

vars == <<pc, uploaded, target, raised, kml_bytes, icon_by_style_id,
          normal_target_by_stylemap_id, placemarks, idx, href, rows, ui,
          download, in_tokens, coord_text, coords, vertices, tri>>

----------------------------------------------------------------------------
(* Python str operations, on sequences of characters.                      *)

\* None where a str is expected (never equal to a sequence of characters).
NoStr == <<"None">>

UpperLetters == <<"A","B","C","D","E","F","G","H","I","J","K","L","M",
                  "N","O","P","Q","R","S","T","U","V","W","X","Y","Z">>

LowerLetters == <<"a","b","c","d","e","f","g","h","i","j","k","l","m",
                  "n","o","p","q","r","s","t","u","v","w","x","y","z">>

Digits == <<"0","1","2","3","4","5","6","7","8","9">>

\* The characters str.split() and str.strip() treat as whitespace.
Whitespace == {" ", "\n", "\t", "\r"}

LowerChar(c) ==
    IF \E i \in 1..Len(UpperLetters) : UpperLetters[i] = c
    THEN LowerLetters[CHOOSE i \in 1..Len(UpperLetters) : UpperLetters[i] = c]
    ELSE c

\* s.lower()
Lower(s) == [i \in 1..Len(s) |-> LowerChar(s[i])]

\* s.startswith(p)
StartsWith(s, p) == Len(p) <= Len(s) /\ SubSeq(s, 1, Len(p)) = p

\* s.endswith(p)
EndsWith(s, p) == Len(p) <= Len(s) /\ SubSeq(s, Len(s) - Len(p) + 1, Len(s)) = p

\* sub in s
Contains(s, sub) ==
    \E i \in 1..(Len(s) - Len(sub) + 1) : SubSeq(s, i, i + Len(sub) - 1) = sub

\* s.strip()
Strip(s) ==
    LET keep == {i \in 1..Len(s) : s[i] \notin Whitespace}
    IN  IF keep = {} THEN <<>>
        ELSE LET lo == CHOOSE i \in keep : \A j \in keep : i <= j
                 hi == CHOOSE i \in keep : \A j \in keep : j <= i
             IN  SubSeq(s, lo, hi)

\* s.split(sep) for a one-character sep: the fields between the separators,
\* empty fields kept, so "" gives [""] and "1,,2" gives ["1", "", "2"].
RECURSIVE SplitOn(_, _)
SplitOn(s, sep) ==
    IF \A i \in 1..Len(s) : s[i] # sep THEN <<s>>
    ELSE LET k == CHOOSE i \in 1..Len(s) :
                      s[i] = sep /\ \A j \in 1..(i - 1) : s[j] # sep
         IN  <<SubSeq(s, 1, k - 1)>> \o SplitOn(SubSeq(s, k + 1, Len(s)), sep)

\* s.split(): the maximal runs of non-whitespace characters, in order.
RECURSIVE SplitWhitespace(_)
SplitWhitespace(s) ==
    LET t == Strip(s)
    IN  IF t = <<>> THEN <<>>
        ELSE IF \A i \in 1..Len(t) : t[i] \notin Whitespace THEN <<t>>
        ELSE LET k == CHOOSE i \in 1..Len(t) :
                          t[i] \in Whitespace /\ \A j \in 1..(i - 1) : t[j] \notin Whitespace
             IN  <<SubSeq(t, 1, k - 1)>> \o SplitWhitespace(SubSeq(t, k + 1, Len(t)))

----------------------------------------------------------------------------------------------------------------------------------------
(* Python float(), on the decimal notation: [sign] digits [. digits] with  *)
(* at least one digit.  Everything else raises ValueError.                 *)

ValueError == <<>>

IsDigit(c) == \E i \in 1..Len(Digits) : Digits[i] = c

DigitValue(c) == (CHOOSE i \in 1..Len(Digits) : Digits[i] = c) - 1

AllDigits(s) == \A i \in 1..Len(s) : IsDigit(s[i])

RECURSIVE Pow10(_)
Pow10(n) == IF n = 0 THEN 1 ELSE 10 * Pow10(n - 1)

\* The number a sequence of digits writes, most significant first.
RECURSIVE DigitsValue(_)
DigitsValue(ds) ==
    IF ds = <<>> THEN 0
    ELSE 10 * DigitsValue(SubSeq(ds, 1, Len(ds) - 1)) + DigitValue(ds[Len(ds)])

\* The normal form of m * 10^-e.
RECURSIVE Norm(_, _)
Norm(m, e) ==
    IF m = 0 THEN <<0, 0>>
    ELSE IF e > 0 /\ m % 10 = 0 THEN Norm(m \div 10, e - 1)
    ELSE <<m, e>>

\* The value of the integer part ip and the fraction part fp of a numeral.
DecimalOf(ip, fp) ==
    IF ~AllDigits(ip) \/ ~AllDigits(fp) \/ Len(ip) + Len(fp) = 0
    THEN ValueError
    ELSE Norm(DigitsValue(ip \o fp), Len(fp))

\* The value of the numeral whose parts around "." are given.
DecimalOfParts(parts) ==
    IF Len(parts) > 2 THEN ValueError
    ELSE DecimalOf(parts[1], IF Len(parts) = 2 THEN parts[2] ELSE <<>>)

ParseUnsigned(s) == DecimalOfParts(SplitOn(s, "."))

HasSign(s) == s # <<>> /\ s[1] \in {"-", "+"}

\* u, negated when minus; a ValueError stays one.
Signed(minus, u) ==
    IF u = ValueError THEN ValueError
    ELSE IF minus THEN <<0 - u[1], u[2]>>
    ELSE u

\* float(s)
ParseFloat(s) ==
    Signed(HasSign(s) /\ s[1] = "-", ParseUnsigned(IF HasSign(s) THEN Tail(s) ELSE s))

----------------------------------------------------------------------------
(* parse_coordinates_text, is_triangle, centroid.                          *)

\* The try block of parse_coordinates_text on the two parsed fields: a
\* ValueError from either float() is caught and nothing is appended.
Appended(f) ==
    IF f[1] = ValueError \/ f[2] = ValueError THEN <<>>
    ELSE <<(<<f[1], f[2]>>)>>

\* A loop body that accepts lon,lat only and drops a token with an altitude.
TokenPairTwoFieldsOnly(parts) ==
    IF Len(parts) = 2
    THEN Appended([i \in 1..2 |-> ParseFloat(parts[i])])
    ELSE <<>>

\* The loop body of parse_coordinates_text on the fields of one token: what
\* the token appends to coords.
TokenPair(parts) ==
    IF Len(parts) >= 2
    THEN Appended([i \in 1..2 |-> ParseFloat(parts[i])])
    ELSE <<>>

RECURSIVE CoordsOfTokens(_)
CoordsOfTokens(tokens) ==
    IF tokens = <<>> THEN <<>>
    ELSE TokenPair(SplitOn(Head(tokens), ",")) \o CoordsOfTokens(Tail(tokens))

\* parse_coordinates_text(coord_text): a list of (lon, lat).
ParseCoordinatesText(text) == CoordsOfTokens(SplitWhitespace(Strip(text)))

\* The ndigits argument of round() in is_triangle.
RoundDigits == 10

\* m * 10^-(RoundDigits + k) rounded to RoundDigits digits, a tie to even.
RoundTo(m, p) ==
    IF 2 * (m % p) > p \/ (2 * (m % p) = p /\ ((m - (m % p)) \div p) % 2 = 1)
    THEN Norm(((m - (m % p)) \div p) + 1, RoundDigits)
    ELSE Norm((m - (m % p)) \div p, RoundDigits)

\* round(x, RoundDigits): a decimal with at most RoundDigits fraction digits
\* is unchanged.
Round10(d) ==
    IF d[2] <= RoundDigits THEN d
    ELSE RoundTo(d[1], Pow10(d[2] - RoundDigits))

\* A triangle test on the vertices as parsed, without round().
IsTriangleNoRounding(vs) ==
    Cardinality({vs[i] : i \in 1..Len(vs)}) = 3

\* is_triangle(vertices)
IsTriangle(vs) ==
    Cardinality({<<Round10(vs[i][1]), Round10(vs[i][2])>> : i \in 1..Len(vs)}) = 3

Abs(n) == IF n < 0 THEN 0 - n ELSE n

RECURSIVE Gcd(_, _)
Gcd(a, b) == IF b = 0 THEN a ELSE Gcd(b, a % b)

\* The fraction num / den (den > 0) in lowest terms.
Fraction(num, den) == <<num \div Gcd(Abs(num), den), den \div Gcd(Abs(num), den)>>

\* The value of a decimal as a fraction.
FloatValue(d) == Fraction(d[1], Pow10(d[2]))

RECURSIVE MaxExp(_)
MaxExp(xs) ==
    IF xs = <<>> THEN 0
    ELSE IF Head(xs)[2] >= MaxExp(Tail(xs)) THEN Head(xs)[2]
    ELSE MaxExp(Tail(xs))

\* sum(xs) in units of 10^-e.
RECURSIVE SumAt(_, _)
SumAt(xs, e) ==
    IF xs = <<>> THEN 0
    ELSE Head(xs)[1] * Pow10(e - Head(xs)[2]) + SumAt(Tail(xs), e)

\* sum(xs) / len(xs) for a non-empty list of decimals.
Mean(xs) == Fraction(SumAt(xs, MaxExp(xs)), Pow10(MaxExp(xs)) * Len(xs))

\* centroid(vertices): (mean lon, mean lat); (0.0, 0.0) for an empty list.
Centroid(vs) ==
    IF vs = <<>> THEN <<(<<0, 1>>), (<<0, 1>>)>>
    ELSE [c \in 1..2 |-> Mean([i \in 1..Len(vs) |-> vs[i][c]])]

----------------------------------------------------------------------------
(* The element tree lxml hands to the code, and ElementPath's find/findall *)
(* for the paths the code uses: "./a" (children) and ".//a/b/c" (every     *)
(* descendant a, in document order, then its children b, then theirs c).   *)

\* None where an element is expected.
None == [tag |-> "None", id |-> <<>>, text |-> <<>>, kids |-> <<>>]

\* Every element of els with its descendants, in document order.
RECURSIVE IterAll(_)
IterAll(els) ==
    IF els = <<>> THEN <<>>
    ELSE <<Head(els)>> \o IterAll(Head(els).kids) \o IterAll(Tail(els))

WithTag(els, t) == SelectSeq(els, LAMBDA k : k.tag = t)

\* The children tagged t of every element of els, in order.
RECURSIVE ChildrenTagged(_, _)
ChildrenTagged(els, t) ==
    IF els = <<>> THEN <<>>
    ELSE WithTag(Head(els).kids, t) \o ChildrenTagged(Tail(els), t)

RECURSIVE Descend(_, _)
Descend(els, path) ==
    IF path = <<>> THEN els
    ELSE Descend(ChildrenTagged(els, Head(path)), Tail(path))

\* el.findall(".//p1/p2/..") when anywhere, el.findall("./p1/p2/..") otherwise.
FindAll(el, anywhere, path) ==
    Descend(WithTag(IF anywhere THEN IterAll(el.kids) ELSE el.kids, Head(path)),
            Tail(path))

FirstOrNone(all) == IF all = <<>> THEN None ELSE Head(all)

\* el.find(..): the first match, or None.
Find(el, anywhere, path) == FirstOrNone(FindAll(el, anywhere, path))

\* el is not None and el.text
HasText(el) == el # None /\ el.text # <<>>

----------------------------------------------------------------------------
(* extract_placemark_point, extract_placemark_polygon, extract_name.       *)

\* None where a (lat, lon) tuple is expected.
NonePoint == <<>>

\* None where a list of vertices is expected (never equal to a list of pairs).
NoneVertices == <<(<<>>)>>

\* Python truthiness of an Optional list: None and [] are falsy.
Truthy(list) == list # NoneVertices /\ list # <<>>

\* Lines 67-70: the first pair of coords as (lat, lon), or None.
FirstPairSwapped(cs) ==
    IF cs # <<>> THEN <<cs[1][2], cs[1][1]>> ELSE NonePoint

\* Lines 65-70 of extract_placemark_point, on the element found.
PointOfElement(el) ==
    IF HasText(el) THEN FirstPairSwapped(ParseCoordinatesText(el.text))
    ELSE NonePoint

\* extract_placemark_point(pm): (lat, lon) of the first pair, or None.
ExtractPlacemarkPoint(pm) ==
    PointOfElement(Find(pm, TRUE, <<"Point", "coordinates">>))

\* Lines 79-81 of extract_placemark_polygon, on the element found.
VerticesOfElement(el) ==
    IF HasText(el) THEN ParseCoordinatesText(el.text) ELSE NoneVertices

\* extract_placemark_polygon(pm): the outer ring's vertices, or None.
ExtractPlacemarkPolygon(pm) ==
    VerticesOfElement(
        Find(pm, TRUE, <<"Polygon", "outerBoundaryIs", "LinearRing", "coordinates">>))

\* A name extraction without the descendant fallback.
NameOfDirectOnly(el, el2) ==
    IF HasText(el) THEN Strip(el.text) ELSE <<>>

\* Lines 87-90 of extract_name, on the two elements found.
NameOf(el, el2) ==
    IF HasText(el) THEN Strip(el.text)
    ELSE IF HasText(el2) THEN Strip(el2.text)
    ELSE <<>>

\* extract_name(pm)
ExtractName(pm) ==
    NameOf(Find(pm, FALSE, <<"name">>), Find(pm, TRUE, <<"name">>))

----------------------------------------------------------------------------
(* build_style_index, resolve_style_href_for_placemark, detect_symbol.     *)

S_hash == <<"#">>
S_normal == <<"n","o","r","m","a","l">>
S_triangle == <<"t","r","i","a","n","g","l","e">>
S_flag == <<"f","l","a","g">>

EmptyDict == [k \in {} |-> <<>>]

\* d[k] = v
Put(d, k, v) == [x \in (DOMAIN d) \cup {k} |-> IF x = k THEN v ELSE d[x]]

\* d.get(k)
Get(d, k) == IF k \in DOMAIN d THEN d[k] ELSE NoStr

\* ref[1:] if ref.startswith("#")
StripHash(ref) == IF StartsWith(ref, S_hash) THEN Tail(ref) ELSE ref

\* Lines 107-108: what one Style element adds to icon_by_style_id.
WithStyle(d, style_id, href_el) ==
    IF style_id # <<>> /\ HasText(href_el)
    THEN Put(d, style_id, Strip(href_el.text))
    ELSE d

\* The first loop of build_style_index, over the Style elements left.
RECURSIVE IndexStyles(_, _)
IndexStyles(styles, d) ==
    IF styles = <<>> THEN d
    ELSE IndexStyles(Tail(styles),
             WithStyle(d, Head(styles).id,
                       Find(Head(styles), TRUE, <<"IconStyle", "Icon", "href">>)))

\* Lines 116-128: what one Pair adds to normal_target_by_stylemap_id.
WithPair(d, sm_id, key_el, url_el) ==
    IF /\ sm_id # <<>>
       /\ HasText(key_el)
       /\ Lower(Strip(key_el.text)) = S_normal
       /\ HasText(url_el)
    THEN Put(d, sm_id, StripHash(Strip(url_el.text)))
    ELSE d

\* The inner loop of build_style_index, over the Pair children left of one StyleMap.
RECURSIVE IndexPairs(_, _, _)
IndexPairs(sm_id, pairs, d) ==
    IF pairs = <<>> THEN d
    ELSE IndexPairs(sm_id, Tail(pairs),
             WithPair(d, sm_id, Find(Head(pairs), FALSE, <<"key">>),
                      Find(Head(pairs), FALSE, <<"styleUrl">>)))

\* The second loop of build_style_index, over the StyleMap elements left.
RECURSIVE IndexStyleMaps(_, _)
IndexStyleMaps(sms, d) ==
    IF sms = <<>> THEN d
    ELSE IndexStyleMaps(Tail(sms),
             IndexPairs(Head(sms).id, FindAll(Head(sms), FALSE, <<"Pair">>), d))

\* build_style_index(root): (icon_by_style_id, normal_target_by_stylemap_id).
BuildStyleIndex(root) ==
    <<IndexStyles(FindAll(root, TRUE, <<"Style">>), EmptyDict),
      IndexStyleMaps(FindAll(root, TRUE, <<"StyleMap">>), EmptyDict)>>

\* Lines 146-147: one step of StyleMap indirection.
ThroughStyleMap(ref, normals) == IF ref \in DOMAIN normals THEN normals[ref] ELSE ref

\* A resolution that follows a StyleMap whose target is again a StyleMap.
LookupHrefChained(url_el, icons, normals) ==
    IF ~HasText(url_el) THEN NoStr
    ELSE Get(icons,
             ThroughStyleMap(ThroughStyleMap(StripHash(Strip(url_el.text)), normals),
                             normals))

\* Lines 138-151 of resolve_style_href_for_placemark, on the styleUrl found.
LookupHref(url_el, icons, normals) ==
    IF ~HasText(url_el) THEN NoStr
    ELSE Get(icons, ThroughStyleMap(StripHash(Strip(url_el.text)), normals))

\* resolve_style_href_for_placemark(pm, icon_by_style_id, normal_target_by_stylemap_id)
ResolveStyleHref(pm, icons, normals) ==
    LookupHref(Find(pm, FALSE, <<"styleUrl">>), icons, normals)

\* if vertices and is_triangle(vertices), on the vertices extracted.
TriangleRing(vs) == Truthy(vs) /\ IsTriangle(vs)

\* The geometry rule of detect_symbol, lines 162-163.
GeometryRule(pm) == TriangleRing(ExtractPlacemarkPolygon(pm))

\* if href and "triangle" in href.lower(), the style rule of detect_symbol.
StyleRule(h) == h # NoStr /\ h # <<>> /\ Contains(Lower(h), S_triangle)

\* The description text of a Placemark, lower-cased; "" when it has none.
DescriptionText(pm) == Lower(Find(pm, FALSE, <<"description">>).text)

\* The policy with a description rule and a Yellow Dot default.
ClassifyWithDescription(geometry, h, text) ==
    IF geometry THEN "Purple Triangle"
    ELSE IF StyleRule(h) THEN "Purple Triangle"
    ELSE IF Contains(text, S_triangle) THEN "Purple Triangle"
    ELSE IF Contains(text, S_flag) THEN "Red Flag"
    ELSE "Yellow Dot"

\* A classifier with the description rule and the Yellow Dot default.
DetectSymbolWithDescription(pm, icons, normals) ==
    ClassifyWithDescription(GeometryRule(pm), ResolveStyleHref(pm, icons, normals),
                            DescriptionText(pm))

\* A classifier without the geometry rule.
DetectSymbolStyleOnly(pm, icons, normals) ==
    IF StyleRule(ResolveStyleHref(pm, icons, normals)) THEN "Purple Triangle"
    ELSE "Red Flag"

\* detect_symbol(pm, icon_by_style_id, normal_target_by_stylemap_id): the
\* geometry rule, then the style rule, then the default.
DetectSymbol(pm, icons, normals) ==
    IF GeometryRule(pm) THEN "Purple Triangle"
    ELSE IF StyleRule(ResolveStyleHref(pm, icons, normals)) THEN "Purple Triangle"
    ELSE "Red Flag"

----------------------------------------------------------------------------
(* read_kml_from_kmz.  An archive is a sequence of entries [name, data].   *)

S_doc_kml == <<"d","o","c",".","k","m","l">>
S_root_kml == <<"r","o","o","t",".","k","m","l">>
S_index_kml == <<"i","n","d","e","x",".","k","m","l">>
S_dot_kml == <<".","k","m","l">>
S_dot_kmz == <<".","k","m","z">>

\* preferred
Preferred == <<S_doc_kml, S_root_kml, S_index_kml>>

Range(seq) == {seq[i] : i \in 1..Len(seq)}

\* next(iter, None)
NextOrNone(seq) == IF seq # <<>> THEN Head(seq) ELSE NoStr

\* Line 24: the first name that ends with .kml, case-insensitively.
FirstKml(names) ==
    NextOrNone(SelectSeq(names, LAMBDA n : EndsWith(Lower(n), S_dot_kml)))

\* The entry name n is p, at the container root or under any directory.
PathEndsWith(n, p) == n = p \/ EndsWith(n, <<"/">> \o p)

\* The first name whose path ends with p.
FirstEndingWith(names, p) ==
    NextOrNone(SelectSeq(names, LAMBDA n : PathEndsWith(n, p)))

\* A preferred name matching any entry whose path ends with it.
SelectTargetByPathSuffix(names) ==
    IF \E i \in 1..Len(Preferred) : FirstEndingWith(names, Preferred[i]) # NoStr
    THEN FirstEndingWith(names,
             Preferred[CHOOSE i \in 1..Len(Preferred) :
                 /\ FirstEndingWith(names, Preferred[i]) # NoStr
                 /\ \A j \in 1..(i - 1) : FirstEndingWith(names, Preferred[j]) = NoStr])
    ELSE FirstKml(names)

\* target, as lines 20-24 of read_kml_from_kmz choose it from z.namelist();
\* NoStr is None.
SelectTarget(names) ==
    IF SelectSeq(Preferred, LAMBDA p : p \in Range(names)) # <<>>
    THEN Head(SelectSeq(Preferred, LAMBDA p : p \in Range(names)))
    ELSE FirstKml(names)

\* z.namelist()
NameList(entries) == [i \in 1..Len(entries) |-> entries[i].name]

\* z.read(name): the data of the last entry of that name.
ZipRead(entries, name) ==
    entries[CHOOSE i \in 1..Len(entries) :
                /\ entries[i].name = name
                /\ \A j \in (i + 1)..Len(entries) : entries[j].name # name].data

\* An unwrapper that raises NoKmlFoundError where line 25 returns None.
ReadTargetOrRaise(entries, t) ==
    IF t # NoStr /\ t # <<>>
    THEN [raised |-> "", target |-> t, bytes |-> ZipRead(entries, t)]
    ELSE [raised |-> "NoKmlFoundError", target |-> t, bytes |-> None]

\* Line 25: z.read(target) if target else None.
ReadTarget(entries, t) ==
    IF t # NoStr /\ t # <<>>
    THEN [raised |-> "", target |-> t, bytes |-> ZipRead(entries, t)]
    ELSE [raised |-> "", target |-> t, bytes |-> None]

\* read_kml_from_kmz(kmz_bytes): what it raises (or ""), its local target and
\* what it returns (None when no entry was chosen).  zipfile.ZipFile raises
\* BadZipFile on bytes that are no zip container.
ReadKmlFromKmz(file) ==
    IF ~file.zip
    THEN [raised |-> "BadZipFile", target |-> NoStr, bytes |-> None]
    ELSE ReadTarget(file.entries, SelectTarget(NameList(file.entries)))

----------------------------------------------------------------------------
(* The body of the Placemark loop of parse_kml.                            *)

\* continue: the Placemark yields no row.
Skip == <<>>

\* (c_lat, c_lon) of lines 198-199.
CentroidSwapped(c) == <<c[2], c[1]>>

\* A loop body that prefers the polygon's centroid to the Point.
ChooseCoordinateCentroidFirst(point, vs) ==
    IF Truthy(vs) THEN CentroidSwapped(Centroid(vs))
    ELSE IF point # NonePoint THEN <<FloatValue(point[1]), FloatValue(point[2])>>
    ELSE Skip

\* A loop body that tests vertices for None only, not for being empty.
ChooseCoordinateNoneCheckOnly(point, vs) ==
    IF point # NonePoint THEN <<FloatValue(point[1]), FloatValue(point[2])>>
    ELSE IF vs # NoneVertices THEN CentroidSwapped(Centroid(vs))
    ELSE Skip

\* (lat, lon) as lines 191-202 of parse_kml set them from the point and the
\* vertices extracted, or Skip.
ChooseCoordinate(point, vs) ==
    IF point # NonePoint THEN <<FloatValue(point[1]), FloatValue(point[2])>>
    ELSE IF Truthy(vs) THEN CentroidSwapped(Centroid(vs))
    ELSE Skip

PlacemarkCoordinate(pm) ==
    ChooseCoordinate(ExtractPlacemarkPoint(pm), ExtractPlacemarkPolygon(pm))

\* Lines 204-213: the row appended, none after continue.
RowsOf(c, name, symbol) ==
    IF c = Skip THEN <<>>
    ELSE <<[Latitude |-> c[1], Longitude |-> c[2], Name |-> name, Symbol |-> symbol]>>

\* The rows one pass of the loop appends: one row, or none.
PlacemarkRows(pm, icons, normals) ==
    RowsOf(PlacemarkCoordinate(pm), ExtractName(pm), DetectSymbol(pm, icons, normals))

\* The href local to detect_symbol after a pass of the loop: kept when the
\* pass ended in continue, None when the geometry rule returned first.
HrefAfter(old, c, geometry, h) ==
    IF c = Skip THEN old
    ELSE IF geometry THEN NoStr
    ELSE h
----------------
(* Inputs: the documents, archives and uploads the model runs the code on.  *)

MaxPlacemarks == 2
MaxEntries == 3

E(tag, text, kids) == [tag |-> tag, id |-> <<>>, text |-> text, kids |-> kids]
EId(tag, id, kids) == [tag |-> tag, id |-> id, text |-> <<>>, kids |-> kids]
Leaf(tag, text) == E(tag, text, <<>>)
PointEl(text) == E("Point", <<>>, <<Leaf("coordinates", text)>>)
PolygonEl(text) ==
    E("Polygon", <<>>, <<E("outerBoundaryIs", <<>>,
        <<E("LinearRing", <<>>, <<Leaf("coordinates", text)>>)>>)>>)
StyleEl(id, h) ==
    EId("Style", id, <<E("IconStyle", <<>>, <<E("Icon", <<>>, <<Leaf("href", h)>>)>>)>>)
PairEl(key, url) == E("Pair", <<>>, <<Leaf("key", key), Leaf("styleUrl", url)>>)

T_point_a == <<"1",",","2">>
T_point_b == <<" ","-","1",".","5",",","2",".","2","5",",","9"," ","3",",","4">>
T_point_bad == <<" ","x"," ">>
T_blank == <<" ">>
T_ring_triangle == <<"0",",","0"," ","1",",","0"," ","0",",","1"," ","0",",","0">>
T_ring_square == <<"0",",","0",",","5"," ","1",",","0",",","5","\n","1",",","1",",","5"," ","0",",","1",",","5","\t","0",",","0",",","5">>
T_ring_open == <<"0",",","0"," ","2",",","0"," ","1",",","2">>
T_ring_bad == <<"x",",","y"," ","1"," ",",">>
T_name_a == <<"A","1">>
T_name_pad == <<" ","0","0","7"," ">>
T_name_nested == <<" ","N","2","\n">>
T_desc_flag == <<"R","e","d"," ","F","L","A","G"," ","h","e","r","e">>
T_desc_triangle == <<"A"," ","T","r","i","a","n","g","l","e">>
T_desc_plain == <<"p","l","a","i","n">>
T_sm1 == <<"s","m","1">>
T_sm2 == <<"s","m","2">>
T_st2 == <<"s","t","2">>
T_st3 == <<"s","t","3">>
T_ref_sm1 == <<"#","s","m","1">>
T_ref_sm2 == <<" ","#","s","m","2"," ">>
T_ref_st2 == <<"#","s","t","2">>
T_ref_st2_bare == <<"s","t","2">>
T_ref_st3 == <<"#","s","t","3">>
T_ref_unknown == <<"#","n","o","p","e">>
T_href_triangle == <<" ","h","t","t","p",":","/","/","x","/","T","r","i","a","n","g","l","e","-","i","c","o","n",".","p","n","g"," ">>
T_href_flag == <<"f","l","a","g",".","p","n","g">>
T_key_normal == <<" ","N","o","r","m","a","l"," ">>
T_key_highlight == <<"h","i","g","h","l","i","g","h","t">>

\* Style sections of a document.
StyleSections ==
    << << StyleEl(T_st2, T_href_flag),
          StyleEl(T_st2, T_href_triangle),
          StyleEl(T_st3, T_href_flag),
          StyleEl(<<>>, T_href_triangle),
          EId("Style", T_sm2, <<>>),
          EId("StyleMap", T_sm1,
              <<PairEl(T_key_highlight, T_ref_st3), PairEl(T_key_normal, T_ref_st2)>>),
          EId("StyleMap", T_sm2, <<PairEl(S_normal, T_ref_sm1)>>),
          EId("StyleMap", T_st3, <<PairEl(T_key_highlight, T_ref_st2)>>) >>,
       << StyleEl(T_st2, T_href_flag),
          EId("StyleMap", T_sm1, <<PairEl(S_normal, T_ref_st2_bare)>>) >> >>

\* Placemarks a document is built from.
PlacemarkCatalogue ==
    << E("Placemark", <<>>, <<Leaf("name", T_name_a), PointEl(T_point_a)>>),
       E("Placemark", <<>>,
           <<Leaf("name", T_name_pad), Leaf("description", T_desc_flag),
             Leaf("styleUrl", T_ref_st3),
             PolygonEl(T_ring_triangle), PointEl(T_point_b)>>),
       E("Placemark", <<>>, <<Leaf("styleUrl", T_ref_sm1), PolygonEl(T_ring_square)>>),
       E("Placemark", <<>>, <<Leaf("name", T_name_a), PolygonEl(T_ring_bad)>>),
       E("Placemark", <<>>, <<Leaf("name", T_name_a), Leaf("description", T_desc_plain)>>),
       E("Placemark", <<>>,
           <<PointEl(T_point_bad), Leaf("description", T_desc_plain),
             PolygonEl(T_ring_open)>>),
       E("Placemark", <<>>,
           <<Leaf("name", T_name_a), Leaf("description", T_desc_triangle),
             Leaf("styleUrl", T_ref_sm2), PointEl(T_point_a)>>),
       E("Placemark", <<>>,
           <<Leaf("description", T_desc_flag), Leaf("styleUrl", T_ref_unknown),
             PointEl(T_point_a)>>),
       E("Placemark", <<>>,
           <<Leaf("name", <<>>), Leaf("styleUrl", T_ref_sm1),
             E("ExtendedData", <<>>, <<Leaf("name", T_name_nested)>>),
             PointEl(T_point_a)>>),
       E("Placemark", <<>>,
           <<E("ExtendedData", <<>>, <<Leaf("name", T_name_nested)>>),
             Leaf("name", T_blank), Leaf("styleUrl", T_ref_st2_bare),
             E("MultiGeometry", <<>>, <<PointEl(T_point_b), PolygonEl(T_ring_square)>>)>>),
       E("Placemark", <<>>,
           <<E("ExtendedData", <<>>, <<Leaf("name", T_name_nested)>>),
             Leaf("name", <<>>), PointEl(T_blank), PolygonEl(T_ring_square)>>),
       E("Placemark", <<>>,
           <<E("ExtendedData", <<>>,
                 <<Leaf("styleUrl", T_ref_st2), Leaf("name", T_name_nested)>>),
             PointEl(T_point_a), PolygonEl(T_blank)>>) >>

\* A document: the style section, the first Placemark under Document, the
\* others inside a Folder.
Doc(styles, pms) ==
    E("kml", <<>>,
      <<E("Document", <<>>,
          styles \o (IF pms = <<>> THEN <<>>
                     ELSE <<Head(pms)>> \o (IF Tail(pms) = <<>> THEN <<>>
                                            ELSE <<E("Folder", <<>>, Tail(pms))>>)))>>)

SeqsUpTo(S, n) == UNION {[1..k -> S] : k \in 0..n}

Docs ==
    {Doc(StyleSections[s], pms) :
        s \in 1..Len(StyleSections), pms \in SeqsUpTo(Range(PlacemarkCatalogue), MaxPlacemarks)}

T_entry_nested == <<"s","u","b","/","d","o","c",".","k","m","l">>
T_entry_a == <<"a",".","k","m","l">>
T_entry_upper == <<"B",".","K","M","L">>
T_entry_icon == <<"i","m","a","g","e","s","/","i","c","o","n",".","p","n","g">>
T_upload_kml == <<"S","i","t","e","s",".","K","M","L">>
T_upload_kmz == <<"S","i","t","e","s",".","K","M","Z">>

EntryNames ==
    {S_doc_kml, S_root_kml, S_index_kml, T_entry_nested, T_entry_a, T_entry_upper,
     T_entry_icon}

\* The document stored in the k-th entry of an archive.
EntryDoc(k) ==
    Doc(StyleSections[1], <<PlacemarkCatalogue[((k - 1) % Len(PlacemarkCatalogue)) + 1]>>)

Archives ==
    {[k \in 1..Len(names) |-> [name |-> names[k], data |-> EntryDoc(k)]] :
        names \in SeqsUpTo(EntryNames, MaxEntries)}

\* uploaded is None.
NoUpload == [name |-> NoStr, zip |-> FALSE, entries |-> <<>>, doc |-> None]

Uploads ==
    {[name |-> T_upload_kml, zip |-> FALSE, entries |-> <<>>, doc |-> d] : d \in Docs}
    \cup {[name |-> T_upload_kmz, zip |-> TRUE, entries |-> a, doc |-> None] : a \in Archives}
    \cup {[name |-> T_upload_kmz, zip |-> FALSE, entries |-> <<>>, doc |-> None]}

----------------------------------------------------------------------------------------------------------------------------------------
(* main and parse_kml as a state machine.                                  *)

Idle ==
    /\ in_tokens = <<>>
    /\ coord_text = <<>>
    /\ coords = <<>>
    /\ vertices = <<>>
    /\ tri = FALSE

Init ==
    /\ pc = "main"
    /\ uploaded \in Uploads \cup {NoUpload}
    /\ target = NoStr
    /\ raised = ""
    /\ kml_bytes = None
    /\ icon_by_style_id = EmptyDict
    /\ normal_target_by_stylemap_id = EmptyDict
    /\ placemarks = <<>>
    /\ idx = 1
    /\ href = NoStr
    /\ rows = <<>>
    /\ ui = ""
    /\ download = FALSE
    /\ Idle

\* main, lines 244-246: nothing uploaded yet.
AwaitUpload ==
    /\ pc = "main"
    /\ uploaded = NoUpload
    /\ pc' = "done"
    /\ ui' = "info: Awaiting file upload."
    /\ UNCHANGED <<uploaded, target, raised, kml_bytes, icon_by_style_id,
                   normal_target_by_stylemap_id, placemarks, idx, href, rows,
                   download, in_tokens, coord_text, coords, vertices, tri>>

\* main on the outcome r of read_kml_from_kmz: lines 283-284 when it raised,
\* lines 251-253 when it returned None, on to parse_kml otherwise.
Unwrapped(r) ==
    /\ target' = r.target
    /\ raised' = r.raised
    /\ kml_bytes' = r.bytes
    /\ IF r.raised # ""
       THEN pc' = "done" /\ ui' = "error: Error processing file"
       ELSE IF r.bytes = None
       THEN pc' = "done" /\ ui' = "error: No KML file found inside the KMZ."
       ELSE pc' = "parse_kml" /\ ui' = ui

\* main, lines 249-253: a .kmz upload is unwrapped.
UnwrapKmz ==
    /\ pc = "main"
    /\ uploaded # NoUpload
    /\ EndsWith(Lower(uploaded.name), S_dot_kmz)
    /\ Unwrapped(ReadKmlFromKmz(uploaded))
    /\ UNCHANGED <<uploaded, icon_by_style_id, normal_target_by_stylemap_id,
                   placemarks, idx, href, rows, download, in_tokens, coord_text,
                   coords, vertices, tri>>

\* main, lines 254-255: any other upload is read as KML.
ReadKml ==
    /\ pc = "main"
    /\ uploaded # NoUpload
    /\ ~EndsWith(Lower(uploaded.name), S_dot_kmz)
    /\ kml_bytes' = uploaded.doc
    /\ pc' = "parse_kml"
    /\ UNCHANGED <<uploaded, target, raised, icon_by_style_id,
                   normal_target_by_stylemap_id, placemarks, idx, href, rows, ui,
                   download, in_tokens, coord_text, coords, vertices, tri>>

\* parse_kml, lines 180-186: the indices, the Placemark list, rows = [].
ParseKmlStart ==
    /\ pc = "parse_kml"
    /\ icon_by_style_id' = BuildStyleIndex(kml_bytes)[1]
    /\ normal_target_by_stylemap_id' = BuildStyleIndex(kml_bytes)[2]
    /\ placemarks' = FindAll(kml_bytes, TRUE, <<"Placemark">>)
    /\ rows' = <<>>
    /\ idx' = 1
    /\ pc' = "loop"
    /\ UNCHANGED <<uploaded, target, raised, kml_bytes, href, ui, download,
                   in_tokens, coord_text, coords, vertices, tri>>

\* parse_kml, lines 187-213: one pass of the loop.
PlacemarkStep ==
    /\ pc = "loop"
    /\ idx <= Len(placemarks)
    /\ rows' = rows \o PlacemarkRows(placemarks[idx], icon_by_style_id,
                                     normal_target_by_stylemap_id)
    /\ href' = HrefAfter(href, PlacemarkCoordinate(placemarks[idx]),
                         GeometryRule(placemarks[idx]),
                         ResolveStyleHref(placemarks[idx], icon_by_style_id,
                                          normal_target_by_stylemap_id))
    /\ idx' = idx + 1
    /\ UNCHANGED <<pc, uploaded, target, raised, kml_bytes, icon_by_style_id,
                   normal_target_by_stylemap_id, placemarks, ui, download,
                   in_tokens, coord_text, coords, vertices, tri>>

\* parse_kml, lines 215-216, and main, lines 259-281: the table and the download.
ShowResult ==
    /\ pc = "loop"
    /\ idx > Len(placemarks)
    /\ pc' = "done"
    /\ IF rows = <<>>
       THEN /\ ui' = "warning: No Placemark features with usable geometries were found."
            /\ download' = FALSE
       ELSE /\ ui' = "dataframe"
            /\ download' = TRUE
    /\ UNCHANGED <<uploaded, target, raised, kml_bytes, icon_by_style_id,
                   normal_target_by_stylemap_id, placemarks, idx, href, rows,
                   in_tokens, coord_text, coords, vertices, tri>>

Next ==
    \/ AwaitUpload
    \/ UnwrapKmz
    \/ ReadKml
    \/ ParseKmlStart
    \/ PlacemarkStep
    \/ ShowResult

Spec == Init /\ [][Next]_vars

----------------------------------------------------------------------------
(* parse_coordinates_text and is_triangle on their own: the argument is     *)
(* drawn from a bounded set and one action applies the function.           *)

MaxTokens == 3
MaxRing == 5

\* The values of the main specification's variables while a function is studied.
MainIdle ==
    /\ uploaded = NoUpload
    /\ target = NoStr
    /\ raised = ""
    /\ kml_bytes = None
    /\ icon_by_style_id = EmptyDict
    /\ normal_target_by_stylemap_id = EmptyDict
    /\ placemarks = <<>>
    /\ idx = 1
    /\ href = NoStr
    /\ rows = <<>>
    /\ ui = ""
    /\ download = FALSE

K_pair == <<"1",",","2">>
K_altitude == <<"-","1",".","5",",","2",".","2","5",",","9">>
K_word == <<"x">>
K_single == <<"7">>
K_second_bad == <<"1",",","x">>
K_first_bad == <<"x",",","1">>
K_third_bad == <<"3",",","4",",","x">>
K_dots == <<".","5",",","1",".">>

\* Tokens a coordinates text is built from.
TokenCatalogue ==
    {K_pair, K_altitude, K_word, K_single, K_second_bad, K_first_bad, K_third_bad, K_dots}

\* Whitespace between two tokens, and around the text.
Separators == {<<" ">>, <<"\n", "\t">>}
Paddings == {<<>>, <<"\n", " ">>}

RECURSIVE Join(_, _)
Join(tokens, sep) ==
    IF tokens = <<>> THEN <<>>
    ELSE IF Len(tokens) = 1 THEN Head(tokens)
    ELSE Head(tokens) \o sep \o Join(Tail(tokens), sep)

TokInit ==
    /\ pc = "parse_coordinates_text"
    /\ in_tokens \in SeqsUpTo(TokenCatalogue, MaxTokens)
    /\ \E sep \in Separators, pad \in Paddings :
           coord_text = pad \o Join(in_tokens, sep) \o pad
    /\ coords = <<>>
    /\ vertices = <<>>
    /\ tri = FALSE
    /\ MainIdle

\* parse_coordinates_text(coord_text), lines 33-43.
Tokenize ==
    /\ pc = "parse_coordinates_text"
    /\ coords' = ParseCoordinatesText(coord_text)
    /\ pc' = "parsed"
    /\ UNCHANGED <<uploaded, target, raised, kml_bytes, icon_by_style_id,
                   normal_target_by_stylemap_id, placemarks, idx, href, rows, ui,
                   download, in_tokens, coord_text, vertices, tri>>

SpecTok == TokInit /\ [][Tokenize]_vars

\* The floats "0", "1" and "0.00000000004" as float() returns them.
F_zero == <<0, 0>>
F_one == <<1, 0>>
F_tiny == <<4, 11>>

\* Vertices a ring is built from.
RingVertices ==
    {<<F_zero, F_zero>>, <<F_one, F_zero>>, <<F_zero, F_one>>, <<F_one, F_one>>,
     <<F_tiny, F_zero>>}

TriInit ==
    /\ pc = "is_triangle"
    /\ vertices \in SeqsUpTo(RingVertices, MaxRing)
    /\ tri = FALSE
    /\ in_tokens = <<>>
    /\ coord_text = <<>>
    /\ coords = <<>>
    /\ MainIdle

\* is_triangle(vertices), lines 48-50.
TriangleTest ==
    /\ pc = "is_triangle"
    /\ tri' = IsTriangle(vertices)
    /\ pc' = "tested"
    /\ UNCHANGED <<uploaded, target, raised, kml_bytes, icon_by_style_id,
                   normal_target_by_stylemap_id, placemarks, idx, href, rows, ui,
                   download, in_tokens, coord_text, coords, vertices>>

SpecTri == TriInit /\ [][TriangleTest]_vars

----------------------------------------------------------------------------
(* The claims.  Last is the Placemark the loop passed last and LastRow the  *)
(* row it appended; every Placemark of every document is Last in some      *)
(* state, so a statement about Last is one about every Placemark.          *)

Passed == SubSeq(placemarks, 1, idx - 1)
Last == placemarks[idx - 1]
LastRow == rows[Len(rows)]
InLoop == pc \in {"loop", "done"} /\ idx > 1

PointText(pm) == Find(pm, TRUE, <<"Point", "coordinates">>).text
RingText(pm) ==
    Find(pm, TRUE, <<"Polygon", "outerBoundaryIs", "LinearRing", "coordinates">>).text

\* At least one valid coordinate pair.
UsablePoint(pm) == ParseCoordinatesText(PointText(pm)) # <<>>
UsableRing(pm) == ParseCoordinatesText(RingText(pm)) # <<>>
Usable(pm) == UsablePoint(pm) \/ UsableRing(pm)

SwappedValue(pair) == <<FloatValue(pair[2]), FloatValue(pair[1])>>
PointLatLon(pm) == SwappedValue(ParseCoordinatesText(PointText(pm))[1])
RingCentroidLatLon(pm) == CentroidSwapped(Centroid(ParseCoordinatesText(RingText(pm))))
RowLatLon(r) == <<r.Latitude, r.Longitude>>
ExpectedLatLon(pm) ==
    IF UsablePoint(pm) THEN PointLatLon(pm) ELSE RingCentroidLatLon(pm)

\* The outer ring is present and passes the triangle test.
TrianglePolygon(pm) == UsableRing(pm) /\ IsTriangle(ParseCoordinatesText(RingText(pm)))

\* C1: a Placemark with a usable Point gets a row carrying the Point's first
\* pair as (Latitude = lat, Longitude = lon), also when it has a usable
\* Polygon ring; the centroid of the ring is the row's coordinate only when
\* the Placemark has no usable Point.
C1_PointBeforeCentroid ==
    (InLoop /\ Usable(Last)) =>
        /\ rows # <<>>
        /\ UsablePoint(Last) => RowLatLon(LastRow) = PointLatLon(Last)
        /\ ~UsablePoint(Last) => RowLatLon(LastRow) = RingCentroidLatLon(Last)

\* A Placemark with a usable Point and a usable ring whose centroid differs
\* from the Point has been passed, and its row carries the Point.
C1_Witness ==
    /\ InLoop
    /\ UsablePoint(Last)
    /\ UsableRing(Last)
    /\ PointLatLon(Last) # RingCentroidLatLon(Last)
    /\ rows # <<>>
    /\ RowLatLon(LastRow) = PointLatLon(Last)

\* The Placemarks passed that have usable geometry, in document order.
RowSources == SelectSeq(Passed, Usable)

\* C2: the rows are, in document order, one row for each Placemark passed
\* that has a usable Point or a usable ring, and no other row: a Placemark
\* without usable geometry (no coordinates, or coordinates without a valid
\* token) adds none, and equal Placemarks each add their own.
C2_OneRowPerUsablePlacemark ==
    pc \in {"loop", "done"} =>
        /\ Len(rows) = Len(RowSources)
        /\ \A k \in 1..Len(rows) :
               /\ k <= Len(RowSources)
               /\ RowLatLon(rows[k]) = ExpectedLatLon(RowSources[k])
               /\ rows[k].Name = ExtractName(RowSources[k])

\* A finished parse of a document whose first Placemark has a ring without
\* a valid token and was skipped, and whose second has its row.
C2_Witness ==
    /\ pc = "done"
    /\ Len(placemarks) = 2
    /\ RingText(placemarks[1]) # <<>>
    /\ ~Usable(placemarks[1])
    /\ Usable(placemarks[2])
    /\ Len(rows) = 1
    /\ RowLatLon(rows[1]) = ExpectedLatLon(placemarks[2])

\* C3: a Placemark whose ring passes the triangle test is Purple Triangle,
\* whatever its style and description and whether or not a Point gave the
\* row's coordinate.
C3_GeometryRuleFirst ==
    (InLoop /\ Usable(Last) /\ TrianglePolygon(Last)) =>
        /\ rows # <<>>
        /\ LastRow.Symbol = "Purple Triangle"

\* A triangle Placemark whose Point gave the coordinate, whose style resolves
\* to flag.png and whose description says flag, classified Purple Triangle.
C3_Witness ==
    /\ InLoop
    /\ TrianglePolygon(Last)
    /\ UsablePoint(Last)
    /\ ResolveStyleHref(Last, icon_by_style_id, normal_target_by_stylemap_id) = T_href_flag
    /\ Contains(DescriptionText(Last), S_flag)
    /\ rows # <<>>
    /\ RowLatLon(LastRow) = PointLatLon(Last)
    /\ LastRow.Symbol = "Purple Triangle"

StyleUrl(pm) == Find(pm, FALSE, <<"styleUrl">>)
StyleRef(pm) == StripHash(Strip(StyleUrl(pm).text))

\* The document's StyleMaps are those of the first style section: sm1 with
\* normal -> #st2, sm2 with normal -> #sm1; st2's href holds "Triangle".
FirstStyleSection ==
    FindAll(kml_bytes, TRUE, <<"StyleMap">>) = WithTag(StyleSections[1], "StyleMap")

\* The style rule was reached for Last: it has a row and is no triangle.
StyleRuleReached == InLoop /\ Usable(Last) /\ ~TrianglePolygon(Last)

\* C4: the href resolved for a Placemark is the Style index's entry for the
\* StyleMap index's target of its direct-child styleUrl (# stripped) when
\* that is a StyleMap id, after exactly one step: a target that is only a
\* StyleMap id gives no href.  Otherwise it is the Style index's entry for
\* the reference itself, and no href when there is none.  So #sm1 with
\* sm1.normal -> #st2 and st2's href naming a triangle is Purple Triangle,
\* and #sm2 with sm2.normal -> #sm1 is not.
C4_OneLevelOfIndirection ==
    StyleRuleReached =>
        /\ ~HasText(StyleUrl(Last)) => href = NoStr
        /\ (HasText(StyleUrl(Last)) /\ StyleRef(Last) \in DOMAIN normal_target_by_stylemap_id) =>
               /\ href = Get(icon_by_style_id, normal_target_by_stylemap_id[StyleRef(Last)])
               /\ normal_target_by_stylemap_id[StyleRef(Last)] \notin DOMAIN icon_by_style_id
                      => (href = NoStr /\ LastRow.Symbol = "Red Flag")
        /\ (HasText(StyleUrl(Last)) /\ StyleRef(Last) \notin DOMAIN normal_target_by_stylemap_id) =>
               href = Get(icon_by_style_id, StyleRef(Last))
        /\ (FirstStyleSection /\ StyleUrl(Last).text = T_ref_sm1) =>
               (href = Strip(T_href_triangle) /\ LastRow.Symbol = "Purple Triangle")
        /\ (FirstStyleSection /\ StyleUrl(Last).text = T_ref_sm2) =>
               (href = NoStr /\ LastRow.Symbol = "Red Flag")
        /\ (FirstStyleSection /\ StyleUrl(Last).text = T_ref_unknown) =>
               (href = NoStr /\ LastRow.Symbol = "Red Flag")

\* A document whose first Placemark refers to #sm1 and became Purple Triangle
\* through st2, and whose second refers to #sm2, whose target sm1 is a
\* StyleMap id and no Style id, and got no href.
C4_Witness ==
    /\ pc = "done"
    /\ FirstStyleSection
    /\ Len(placemarks) = 2
    /\ Len(rows) = 2
    /\ ~TrianglePolygon(placemarks[1])
    /\ StyleUrl(placemarks[1]).text = T_ref_sm1
    /\ rows[1].Symbol = "Purple Triangle"
    /\ StyleRuleReached
    /\ StyleUrl(Last).text = T_ref_sm2
    /\ normal_target_by_stylemap_id[StyleRef(Last)] \in DOMAIN normal_target_by_stylemap_id
    /\ normal_target_by_stylemap_id[StyleRef(Last)] \notin DOMAIN icon_by_style_id
    /\ href = NoStr
    /\ rows[2].Symbol = "Red Flag"

\* Neither the geometry rule nor the style rule matched Last.
NoRuleMatched == StyleRuleReached /\ ~StyleRule(href)

\* C5, as claimed: when neither rule matches, a description containing
\* "triangle" gives Purple Triangle, one containing "flag" gives Red Flag,
\* and otherwise the symbol is Yellow Dot.
C5_DescriptionThenYellowDot ==
    NoRuleMatched =>
        LastRow.Symbol =
            IF Contains(DescriptionText(Last), S_triangle) THEN "Purple Triangle"
            ELSE IF Contains(DescriptionText(Last), S_flag) THEN "Red Flag"
            ELSE "Yellow Dot"

\* C5, amended: when neither the geometry rule nor the style rule matches,
\* the symbol is Red Flag, whatever the description says.
C5_DefaultRedFlag ==
    NoRuleMatched => LastRow.Symbol = "Red Flag"

\* A Placemark matched by neither rule whose description contains
\* "triangle", classified Red Flag.
C5_Witness ==
    /\ NoRuleMatched
    /\ Contains(DescriptionText(Last), S_triangle)
    /\ LastRow.Symbol = "Red Flag"

IsKmz ==
    /\ uploaded # NoUpload
    /\ EndsWith(Lower(uploaded.name), S_dot_kmz)
    /\ uploaded.zip

Listing == NameList(uploaded.entries)

\* The entry the claim selects: the first entry that is, or whose path ends
\* with, the preferred name of highest priority that any entry matches;
\* without one, the first entry ending with .kml.
ClaimedTarget(names) ==
    IF \E n \in Range(names) : PathEndsWith(n, S_doc_kml)
    THEN FirstEndingWith(names, S_doc_kml)
    ELSE IF \E n \in Range(names) : PathEndsWith(n, S_root_kml)
    THEN FirstEndingWith(names, S_root_kml)
    ELSE IF \E n \in Range(names) : PathEndsWith(n, S_index_kml)
    THEN FirstEndingWith(names, S_index_kml)
    ELSE FirstKml(names)

\* C6, as claimed: a preferred name is matched at the root or at any path
\* ending with it, so ['a.kml', 'sub/doc.kml'] selects sub/doc.kml.
C6_PreferredAtAnyPath ==
    (IsKmz /\ pc # "main") => target = ClaimedTarget(Listing)

\* C6, amended: a preferred name is matched only by an entry whose whole name
\* is doc.kml, root.kml or index.kml; the one of highest priority in that
\* order is selected even when another .kml entry precedes it.  When no entry
\* has exactly a preferred name (sub/doc.kml has not), the first entry, in
\* listing order, whose name ends with .kml case-insensitively is selected,
\* so ['a.kml', 'sub/doc.kml'] selects a.kml.  The data returned is the
\* selected entry's.
C6_PreferredByExactName ==
    (IsKmz /\ pc # "main") =>
        /\ S_doc_kml \in Range(Listing) => target = S_doc_kml
        /\ (S_doc_kml \notin Range(Listing) /\ S_root_kml \in Range(Listing)) =>
               target = S_root_kml
        /\ (S_doc_kml \notin Range(Listing) /\ S_root_kml \notin Range(Listing)
                /\ S_index_kml \in Range(Listing)) => target = S_index_kml
        /\ (\A i \in 1..Len(Preferred) : Preferred[i] \notin Range(Listing)) =>
               /\ \A i \in 1..Len(Listing) :
                      (/\ EndsWith(Lower(Listing[i]), S_dot_kml)
                       /\ \A j \in 1..(i - 1) : ~EndsWith(Lower(Listing[j]), S_dot_kml))
                      => target = Listing[i]
               /\ (\A i \in 1..Len(Listing) : ~EndsWith(Lower(Listing[i]), S_dot_kml))
                      => target = NoStr
        /\ Listing = <<T_entry_a, T_entry_nested>> => target = T_entry_a
        /\ Listing = <<T_entry_icon, T_entry_a, S_root_kml, S_doc_kml>> => target = S_doc_kml
        /\ target # NoStr =>
               \E i \in 1..Len(Listing) :
                   Listing[i] = target /\ kml_bytes = uploaded.entries[i].data

\* The archive ['a.kml', 'sub/doc.kml'] unwrapped, a.kml selected.
C6_Witness ==
    /\ IsKmz
    /\ pc # "main"
    /\ Listing = <<T_entry_a, T_entry_nested>>
    /\ target = T_entry_a
    /\ kml_bytes = uploaded.entries[1].data

\* A valid zip without an entry whose name ends with .kml.
NoKmlEntry ==
    IsKmz /\ \A i \in 1..Len(Listing) : ~EndsWith(Lower(Listing[i]), S_dot_kml)

\* C7, as claimed: on a valid zip without a .kml entry the unwrapper fails
\* with NoKmlFoundError and the upload ends in an error, nothing parsed and
\* no download offered.
C7_FailsWithNoKmlFoundError ==
    (NoKmlEntry /\ pc # "main") =>
        /\ raised = "NoKmlFoundError"
        /\ pc = "done"
        /\ ui \in {"error: Error processing file",
                   "error: No KML file found inside the KMZ."}
        /\ rows = <<>>
        /\ placemarks = <<>>
        /\ ~download

\* C7, amended: on a valid zip without an entry whose name ends with .kml,
\* case-insensitively, the unwrapper raises nothing and returns None; main
\* shows the error "No KML file found inside the KMZ." and ends, nothing
\* parsed and no download offered.
C7_ReturnsNoneAndErrorShown ==
    (NoKmlEntry /\ pc # "main") =>
        /\ raised = ""
        /\ target = NoStr
        /\ kml_bytes = None
        /\ pc = "done"
        /\ ui = "error: No KML file found inside the KMZ."
        /\ rows = <<>>
        /\ placemarks = <<>>
        /\ ~download

\* An archive holding only images/icon.png, unwrapped: the error is shown.
C7_Witness ==
    /\ NoKmlEntry
    /\ Listing = <<T_entry_icon>>
    /\ pc = "done"
    /\ raised = ""
    /\ ui = "error: No KML file found inside the KMZ."

\* The fields of a token, and whether one writes a number.
Fields(token) == SplitOn(token, ",")
IsNumber(field) == ParseFloat(field) # ValueError
ValidToken(token) ==
    /\ Len(Fields(token)) >= 2
    /\ IsNumber(Fields(token)[1])
    /\ IsNumber(Fields(token)[2])
LonLat(token) == <<ParseFloat(Fields(token)[1]), ParseFloat(Fields(token)[2])>>
ValidTokens == SelectSeq(in_tokens, ValidToken)

\* C8: whatever the whitespace between and around the tokens, the result is
\* the list of (lon, lat) of the tokens that have at least two fields of
\* which the first two are numbers, in input order; a third field is
\* ignored, and a token without two numeric fields adds nothing and takes
\* nothing away.
C8_ValidTokensInOrder ==
    pc = "parsed" =>
        /\ coords = [k \in 1..Len(ValidTokens) |-> LonLat(ValidTokens[k])]
        /\ in_tokens = <<K_pair, K_word, K_altitude>> =>
               coords = <<(<<F_one, (<<2, 0>>)>>), (<<(<<-15, 1>>), (<<225, 2>>)>>)>>
        /\ in_tokens = <<K_single, K_third_bad, K_second_bad>> =>
               coords = <<(<<(<<3, 0>>), (<<4, 0>>)>>)>>

\* A text whose middle token is no number and whose last has an altitude:
\* both pairs around the bad token are in the result.
C8_Witness ==
    /\ pc = "parsed"
    /\ in_tokens = <<K_pair, K_first_bad, K_altitude>>
    /\ Len(coords) = 2
    /\ coords[2] = <<(<<-15, 1>>), (<<225, 2>>)>>

\* Vertices i and j of the ring are equal after rounding.
SameRounded(i, j) ==
    /\ Round10(vertices[i][1]) = Round10(vertices[j][1])
    /\ Round10(vertices[i][2]) = Round10(vertices[j][2])

\* The ring has exactly three distinct rounded vertices.
ThreeDistinct ==
    \E i, j, k \in 1..Len(vertices) :
        /\ ~SameRounded(i, j) /\ ~SameRounded(i, k) /\ ~SameRounded(j, k)
        /\ \A l \in 1..Len(vertices) :
               SameRounded(l, i) \/ SameRounded(l, j) \/ SameRounded(l, k)

ClosedTriangle ==
    <<(<<F_zero, F_zero>>), (<<F_one, F_zero>>), (<<F_zero, F_one>>), (<<F_zero, F_zero>>)>>
ClosedSquare ==
    <<(<<F_zero, F_zero>>), (<<F_one, F_zero>>), (<<F_one, F_one>>), (<<F_zero, F_one>>),
      (<<F_zero, F_zero>>)>>

\* C9: is_triangle is true exactly when the ring has three distinct vertices
\* after rounding to 10 decimals, however often a vertex is repeated: true
\* of the closed triangle, false of the closed square and of rings with
\* fewer than three distinct vertices.
C9_ThreeDistinctRoundedVertices ==
    pc = "tested" =>
        /\ tri <=> ThreeDistinct
        /\ vertices = ClosedTriangle => tri
        /\ vertices = ClosedSquare => ~tri
        /\ Len(vertices) < 3 => ~tri
        /\ vertices = <<(<<F_zero, F_zero>>), (<<F_tiny, F_zero>>), (<<F_one, F_zero>>),
                        (<<F_zero, F_one>>)>> => tri

\* A ring of five vertices, one repeated and one within rounding of it,
\* found to be a triangle.
C9_Witness ==
    /\ pc = "tested"
    /\ vertices = <<(<<F_zero, F_zero>>), (<<F_one, F_zero>>), (<<F_tiny, F_zero>>),
                    (<<F_zero, F_one>>), (<<F_zero, F_zero>>)>>
    /\ tri

DirectName(pm) == Find(pm, FALSE, <<"name">>)
FirstName(pm) == Find(pm, TRUE, <<"name">>)

\* The kids of every element of els, in order.
RECURSIVE KidsOfAll(_)
KidsOfAll(els) ==
    IF els = <<>> THEN <<>> ELSE Head(els).kids \o KidsOfAll(Tail(els))

\* The name elements below the Placemark's children that have text other
\* than whitespace, in document order.
NestedNames(pm) ==
    SelectSeq(WithTag(IterAll(KidsOfAll(pm.kids)), "name"),
              LAMBDA n : Strip(n.text) # <<>>)

\* C10, as claimed: the direct-child name when it is non-empty; when it is
\* absent, empty or whitespace-only, the first nested non-empty name,
\* trimmed; the empty string when there is neither; the row is there.
C10_FallsBackToNestedName ==
    (InLoop /\ Usable(Last)) =>
        /\ rows # <<>>
        /\ Strip(DirectName(Last).text) # <<>> =>
               LastRow.Name = Strip(DirectName(Last).text)
        /\ (Strip(DirectName(Last).text) = <<>> /\ NestedNames(Last) # <<>>) =>
               LastRow.Name = Strip(NestedNames(Last)[1].text)
        /\ (Strip(DirectName(Last).text) = <<>> /\ NestedNames(Last) = <<>>) =>
               LastRow.Name = <<>>

\* C10, amended: the first direct-child name, trimmed, when it has any text
\* (whitespace-only text counts and gives the empty string); when it is
\* absent or has no text, the text, trimmed, of the first name element in
\* document order among all the Placemark's descendants, which is the empty
\* string when that element is the empty direct child itself or when there
\* is none.  A Placemark with usable geometry has its row whatever its name.
C10_FirstNameInDocumentOrder ==
    (InLoop /\ Usable(Last)) =>
        /\ rows # <<>>
        /\ HasText(DirectName(Last)) => LastRow.Name = Strip(DirectName(Last).text)
        /\ (~HasText(DirectName(Last)) /\ HasText(FirstName(Last))) =>
               LastRow.Name = Strip(FirstName(Last).text)
        /\ (~HasText(DirectName(Last)) /\ ~HasText(FirstName(Last))) =>
               LastRow.Name = <<>>
        /\ Last = PlacemarkCatalogue[9] => LastRow.Name = <<>>
        /\ Last = PlacemarkCatalogue[10] => LastRow.Name = <<>>
        /\ Last = PlacemarkCatalogue[11] => LastRow.Name = Strip(T_name_nested)
        /\ Last = PlacemarkCatalogue[12] => LastRow.Name = Strip(T_name_nested)
        /\ Last = PlacemarkCatalogue[2] => LastRow.Name = Strip(T_name_pad)

\* A Placemark whose empty direct-child name precedes a nested non-empty
\* name, with the empty string as its row's Name; and one without a
\* direct-child name that got the nested name.
C10_Witness ==
    /\ pc = "done"
    /\ Len(placemarks) = 2
    /\ Len(rows) = 2
    /\ DirectName(placemarks[1]) # None
    /\ ~HasText(DirectName(placemarks[1]))
    /\ NestedNames(placemarks[1]) # <<>>
    /\ rows[1].Name = <<>>
    /\ DirectName(placemarks[2]) = None
    /\ NestedNames(placemarks[2]) # <<>>
    /\ rows[2].Name = Strip(NestedNames(placemarks[2])[1].text)

====
